---- MODULE Spec2Model ----
(***************************************************************************)
(* Model of the String-Encryption-Vault library, Vigenere module           *)
(* (src/src/vigenereCipher.js).                                            *)
(*                                                                         *)
(* JavaScript values are records [t, v]: t is the result of typeof (with   *)
(* "null" and "array" told apart from other objects), v the payload as a   *)
(* sequence.  A string is the sequence of its UTF-16 code units, so the    *)
(* character arithmetic of the source is done on the same numbers as in    *)
(* the source.  A call's outcome is a record that either returns a value   *)
(* or throws an error of a given class.                                    *)
(***************************************************************************)
EXTENDS Integers, Sequences, FiniteSets, TLC

VARIABLES pc, fn, args, ret, origin, i, key

vars == <<pc, fn, args, ret, origin, i, key>>

(***************************************************************************)
(* Bounds of the model.                                                    *)
(***************************************************************************)
\* longest enumerated plaintext / ciphertext of encrypt and decrypt
MaxLen == 3
\* longest enumerated key
MaxKeyLen == 2
\* longest plaintext on which verify is tried with a second key
MaxVerifyLen == 2
\* longest enumerated ciphertext of bruteForce
MaxBruteLen == 2
\* longest enumerated candidate list of bruteForce
MaxWords == 3
\* longest enumerated ciphertext of analyze
MaxAnalyzeLen == 5
\* widest enumerated window of analyze
MaxSeqLen == 3
\* largest enumerated length argument of generateKey
MaxGenLen == 3

\* the longest enumerated Braille text
MaxBrailleLen == 2

(***************************************************************************)
(* JavaScript values and outcomes.                                         *)
(***************************************************************************)
Str(s) == [t |-> "string", v |-> s]

\* the number n/d; d = 0 stands for NaN
Num(n, d) == [t |-> "number", v |-> <<n, d>>]

Null == [t |-> "null", v |-> <<>>]

Undefined == [t |-> "undefined", v |-> <<>>]

Bool(b) == [t |-> "boolean", v |-> <<b>>]

Arr(a) == [t |-> "array", v |-> a]

\* typeof x === 'string'
IsString(x) == x.t = "string"

Return(x) == [kind |-> "return", err |-> "none", msg |-> "", val |-> x]

Throw(cls, m) == [kind |-> "throw", err |-> cls, msg |-> m, val |-> Undefined]

Returned(r) == r.kind = "return"

\* the JavaScript remainder a % n for n > 0: it truncates toward zero, so it
\* has the sign of a (TLA+'s % always yields 0..n-1)
JsRem(a, n) == IF a >= 0 THEN a % n ELSE -((-a) % n)

\* all sequences over S of length 0..n
SeqsUpTo(S, n) == UNION {[1..k -> S] : k \in 0..n}

(***************************************************************************)
(* Characters.  Literals are written as tuples of one-character strings    *)
(* and turned into code units by Lit.                                      *)
(***************************************************************************)
UpperAlphabet ==
    <<"A","B","C","D","E","F","G","H","I","J","K","L","M",
      "N","O","P","Q","R","S","T","U","V","W","X","Y","Z">>

LowerAlphabet ==
    <<"a","b","c","d","e","f","g","h","i","j","k","l","m",
      "n","o","p","q","r","s","t","u","v","w","x","y","z">>

Digits == <<"0","1","2","3","4","5","6","7","8","9">>

IndexIn(tbl, c) == CHOOSE k \in 1..Len(tbl) : tbl[k] = c

InTable(tbl, c) == \E k \in 1..Len(tbl) : tbl[k] = c

\* c.charCodeAt(0) of a one-character literal
charCodeAt(c) ==
    IF InTable(UpperAlphabet, c) THEN 64 + IndexIn(UpperAlphabet, c)
    ELSE IF InTable(LowerAlphabet, c) THEN 96 + IndexIn(LowerAlphabet, c)
    ELSE IF InTable(Digits, c) THEN 47 + IndexIn(Digits, c)
    ELSE IF c = " " THEN 32
    ELSE IF c = "!" THEN 33
    ELSE IF c = "," THEN 44
    ELSE 63

Lit(t) == [k \in 1..Len(t) |-> charCodeAt(t[k])]

\* /[A-Z]/.test(char)
IsUpper(c) == c >= 65 /\ c <= 90

\* /[a-z]/.test(char)
IsLower(c) == c >= 97 /\ c <= 122

\* /[A-Za-z]/.test(char)
IsLetter(c) == IsUpper(c) \/ IsLower(c)

\* the Kelvin sign U+212A: an upper-case letter outside ASCII whose lower-case
\* form is the ASCII letter k
KelvinSign == 8490

\* String.prototype.toUpperCase on the code units the model enumerates (those
\* below 128 and the Kelvin sign): a-z map to A-Z, every other unit is
\* unchanged
toUpperCase(s) == [k \in 1..Len(s) |-> IF IsLower(s[k]) THEN s[k] - 32 ELSE s[k]]

\* String.prototype.toLowerCase on the same code units: A-Z map to a-z, the
\* Kelvin sign maps to k, every other unit is unchanged
toLowerCase(s) ==
    [k \in 1..Len(s) |->
        IF IsUpper(s[k]) THEN s[k] + 32
        ELSE IF s[k] = KelvinSign THEN 107
        ELSE s[k]]

(***************************************************************************)
(* encrypt (vigenereCipher.js 23-62)                                       *)
(***************************************************************************)
\* the shift of the key character under the cursor (lines 41-42)
encryptShift(keyUpper, keyIndex) == keyUpper[(keyIndex % Len(keyUpper)) + 1] - 65

\* encryptChar with lower-case letters shifted in the upper-case alphabet
encryptChar_upperOnly(charCode, shift) ==
    IF IsUpper(charCode)
        THEN JsRem(charCode - 65 + shift, 26) + 65
        ELSE JsRem(charCode - 97 + shift, 26) + 65

\* one letter of the loop body (lines 44-52)
encryptChar(charCode, shift) ==
    IF IsUpper(charCode)
        THEN JsRem(charCode - 65 + shift, 26) + 65
        ELSE JsRem(charCode - 97 + shift, 26) + 97

\* encryptLoop with the key cursor advanced on every character
RECURSIVE encryptLoop_cursorOnEveryChar(_, _, _, _, _)
encryptLoop_cursorOnEveryChar(plaintext, keyUpper, k, keyIndex, result) ==
    IF k > Len(plaintext) THEN result
    ELSE IF IsLetter(plaintext[k])
        THEN encryptLoop_cursorOnEveryChar(plaintext, keyUpper, k + 1, keyIndex + 1,
                 Append(result,
                        encryptChar(plaintext[k], encryptShift(keyUpper, keyIndex))))
        ELSE encryptLoop_cursorOnEveryChar(plaintext, keyUpper, k + 1, keyIndex + 1,
                 Append(result, plaintext[k]))

\* encryptLoop without the else branch of lines 54-58: non-letters are dropped
RECURSIVE encryptLoop_dropsNonLetters(_, _, _, _, _)
encryptLoop_dropsNonLetters(plaintext, keyUpper, k, keyIndex, result) ==
    IF k > Len(plaintext) THEN result
    ELSE IF IsLetter(plaintext[k])
        THEN encryptLoop_dropsNonLetters(plaintext, keyUpper, k + 1, keyIndex + 1,
                 Append(result,
                        encryptChar(plaintext[k], encryptShift(keyUpper, keyIndex))))
        ELSE encryptLoop_dropsNonLetters(plaintext, keyUpper, k + 1, keyIndex, result)

\* the for loop of lines 35-59; k is the 1-based position of plaintext[i]
RECURSIVE encryptLoop(_, _, _, _, _)
encryptLoop(plaintext, keyUpper, k, keyIndex, result) ==
    IF k > Len(plaintext) THEN result
    ELSE IF IsLetter(plaintext[k])
        THEN encryptLoop(plaintext, keyUpper, k + 1, keyIndex + 1,
                 Append(result,
                        encryptChar(plaintext[k], encryptShift(keyUpper, keyIndex))))
        ELSE encryptLoop(plaintext, keyUpper, k + 1, keyIndex,
                 Append(result, plaintext[k]))

\* encrypt with the key validated before the plaintext
encrypt_keyCheckedFirst(plaintext, k) ==
    IF ~IsString(k) \/ Len(k.v) = 0
        THEN Throw("Error", "Key must be a non-empty string")
    ELSE IF ~IsString(plaintext)
        THEN Throw("TypeError", "Plaintext must be a string")
    ELSE Return(Str(encryptLoop(plaintext.v, toUpperCase(k.v), 1, 0, <<>>)))

\* encrypt without line 31: the key is used in the case it was given
encrypt_keyAsGiven(plaintext, k) ==
    IF ~IsString(plaintext)
        THEN Throw("TypeError", "Plaintext must be a string")
    ELSE IF ~IsString(k) \/ Len(k.v) = 0
        THEN Throw("Error", "Key must be a non-empty string")
    ELSE Return(Str(encryptLoop(plaintext.v, k.v, 1, 0, <<>>)))

encrypt(plaintext, k) ==
    IF ~IsString(plaintext)
        THEN Throw("TypeError", "Plaintext must be a string")
    ELSE IF ~IsString(k) \/ Len(k.v) = 0
        THEN Throw("Error", "Key must be a non-empty string")
    ELSE Return(Str(encryptLoop(plaintext.v, toUpperCase(k.v), 1, 0, <<>>)))

(***************************************************************************)
(* decrypt (vigenereCipher.js 77-116)                                      *)
(***************************************************************************)
\* decryptChar without the + 26 that keeps the remainder's operand positive
decryptChar_noWrap(charCode, shift) ==
    IF IsUpper(charCode)
        THEN JsRem(charCode - 65 - shift, 26) + 65
        ELSE JsRem(charCode - 97 - shift, 26) + 97

\* one letter of the loop body (lines 98-106)
decryptChar(charCode, shift) ==
    IF IsUpper(charCode)
        THEN JsRem(charCode - 65 - shift + 26, 26) + 65
        ELSE JsRem(charCode - 97 - shift + 26, 26) + 97

\* the for loop of lines 89-113
RECURSIVE decryptLoop(_, _, _, _, _)
decryptLoop(ciphertext, keyUpper, k, keyIndex, result) ==
    IF k > Len(ciphertext) THEN result
    ELSE IF IsLetter(ciphertext[k])
        THEN decryptLoop(ciphertext, keyUpper, k + 1, keyIndex + 1,
                 Append(result,
                        decryptChar(ciphertext[k], encryptShift(keyUpper, keyIndex))))
        ELSE decryptLoop(ciphertext, keyUpper, k + 1, keyIndex,
                 Append(result, ciphertext[k]))

decrypt(ciphertext, k) ==
    IF ~IsString(ciphertext)
        THEN Throw("TypeError", "Ciphertext must be a string")
    ELSE IF ~IsString(k) \/ Len(k.v) = 0
        THEN Throw("Error", "Key must be a non-empty string")
    ELSE Return(Str(decryptLoop(ciphertext.v, toUpperCase(k.v), 1, 0, <<>>)))

(***************************************************************************)
(* verify (vigenereCipher.js 331-338)                                      *)
(***************************************************************************)
\* verify without its own type check
verify_noTypeCheck(plaintext, ciphertext, k) ==
    LET encrypted == encrypt(plaintext, k)
    IN  IF ~Returned(encrypted) THEN encrypted
        ELSE IF ~IsString(ciphertext)
            THEN Throw("TypeError", "ciphertext.toUpperCase is not a function")
        ELSE Return(Bool(toUpperCase(encrypted.val.v) = toUpperCase(ciphertext.v)))

\* verify with the plaintext decrypted instead of encrypted
verify_decryptsInstead(plaintext, ciphertext, k) ==
    IF ~IsString(plaintext) \/ ~IsString(ciphertext) \/ ~IsString(k)
        THEN Throw("TypeError", "All parameters must be strings")
    ELSE LET encrypted == decrypt(plaintext, k)
         IN  IF ~Returned(encrypted) THEN encrypted
             ELSE Return(Bool(toUpperCase(encrypted.val.v) = toUpperCase(ciphertext.v)))

\* verify comparing the two strings as they are
verify_caseSensitive(plaintext, ciphertext, k) ==
    IF ~IsString(plaintext) \/ ~IsString(ciphertext) \/ ~IsString(k)
        THEN Throw("TypeError", "All parameters must be strings")
    ELSE LET encrypted == encrypt(plaintext, k)
         IN  IF ~Returned(encrypted) THEN encrypted
             ELSE Return(Bool(encrypted.val.v = ciphertext.v))

verify(plaintext, ciphertext, k) ==
    IF ~IsString(plaintext) \/ ~IsString(ciphertext) \/ ~IsString(k)
        THEN Throw("TypeError", "All parameters must be strings")
    ELSE LET encrypted == encrypt(plaintext, k)
         IN  IF ~Returned(encrypted) THEN encrypted
             ELSE Return(Bool(toUpperCase(encrypted.val.v) = toUpperCase(ciphertext.v)))

(***************************************************************************)
(* The comparators handed to Array.prototype.sort.  A Map entry [key,      *)
(* value] is the record [k, val].                                          *)
(***************************************************************************)
\* byScore with the operands exchanged: lowest score first
byScore_ascending(a, b) == a.score - b.score

\* the comparator of line 229: (a, b) => b.score - a.score
byScore(a, b) == b.score - a.score

\* the comparator of line 251: (a, b) => a - b
ascending(a, b) == a - b

\* byFrequency with the operands exchanged: lowest tally first
byFrequency_ascending(a, b) == a.val - b.val

\* the comparator of line 305: (a, b) => b[1] - a[1]
byFrequency(a, b) == b.val - a.val

\* the comparator of the given name applied to a and b
compare(order, a, b) ==
    IF order = "byScore" THEN byScore(a, b)
    ELSE IF order = "byFrequency" THEN byFrequency(a, b)
    ELSE ascending(a, b)

(***************************************************************************)
(* Array.prototype.sort with a comparator: the result is ordered by the    *)
(* comparator and, as ECMAScript requires, stable: elements the comparator *)
(* calls equal keep their order.  The element at position j goes to the    *)
(* place after all elements that sort before it.                           *)
(***************************************************************************)
sortRank(s, order, j) ==
    1 + Cardinality({k \in 1..Len(s) :
                        \/ compare(order, s[k], s[j]) < 0
                        \/ (compare(order, s[k], s[j]) = 0 /\ k < j)})

sort(s, order) ==
    [r \in 1..Len(s) |-> s[CHOOSE j \in 1..Len(s) : sortRank(s, order, j) = r]]

\* Array.prototype.slice(0, n)
slice0(s, n) == SubSeq(s, 1, IF Len(s) < n THEN Len(s) ELSE n)

(***************************************************************************)
(* calculateTextScore (vigenereCipher.js 125-165).  The weights are kept   *)
(* in hundredths, so that the sum is an integer: [A] = 8, [B] = 1.5, ...   *)
(***************************************************************************)
englishFrequency ==
    <<800, 150, 280, 430, 1100, 220, 200, 610, 700, 15, 77, 400, 240,
      670, 750, 190, 10, 600, 630, 900, 280, 98, 240, 15, 200, 7>>

RECURSIVE scoreLoop(_, _, _)
scoreLoop(textUpper, k, score) ==
    IF k > Len(textUpper) THEN score
    ELSE IF IsUpper(textUpper[k])
        THEN scoreLoop(textUpper, k + 1, score + englishFrequency[textUpper[k] - 64])
        ELSE scoreLoop(textUpper, k + 1, score)

calculateTextScore(text) == scoreLoop(toUpperCase(text), 1, 0)

(***************************************************************************)
(* bruteForce (vigenereCipher.js 180-232)                                  *)
(***************************************************************************)
defaultWords ==
    << Str(Lit(<<"P","A","S","S","W","O","R","D">>)),
       Str(Lit(<<"S","E","C","R","E","T">>)),
       Str(Lit(<<"K","E","Y">>)),
       Str(Lit(<<"C","I","P","H","E","R">>)),
       Str(Lit(<<"E","N","C","R","Y","P","T">>)),
       Str(Lit(<<"S","E","C","U","R","I","T","Y">>)),
       Str(Lit(<<"C","O","M","P","U","T","E","R">>)),
       Str(Lit(<<"A","L","G","O","R","I","T","H","M">>)),
       Str(Lit(<<"C","R","Y","P","T","O","G","R","A","P","H","Y">>)),
       Str(Lit(<<"H","A","S","H">>)),
       Str(Lit(<<"S","Y","M","M","E","T","R","I","C">>)),
       Str(Lit(<<"A","S","Y","M","M","E","T","R","I","C">>)),
       Str(Lit(<<"M","E","S","S","A","G","E">>)),
       Str(Lit(<<"H","E","L","L","O">>)),
       Str(Lit(<<"W","O","R","L","D">>)),
       Str(Lit(<<"J","A","V","A","S","C","R","I","P","T">>)),
       Str(Lit(<<"H","A","C","K","T","O","B","E","R","F","E","S","T">>)),
       Str(Lit(<<"C","O","N","T","R","I","B","U","T","E">>)),
       Str(Lit(<<"G","I","T","H","U","B">>)),
       Str(Lit(<<"V","A","U","L","T">>)),
       Str(Lit(<<"C","R","Y","P","T","O">>)) >>

\* tryWords without the try/catch: the first word on which decrypt throws ends
\* the loop
RECURSIVE tryWords_stopsAtError(_, _, _, _)
tryWords_stopsAtError(ciphertext, wordsToTry, k, results) ==
    IF k > Len(wordsToTry) THEN results
    ELSE LET word == wordsToTry[k]
             plaintext == decrypt(ciphertext, word)
         IN  IF Returned(plaintext)
                 THEN tryWords_stopsAtError(ciphertext, wordsToTry, k + 1,
                          Append(results,
                                 [key |-> word,
                                  plaintext |-> plaintext.val,
                                  score |-> calculateTextScore(plaintext.val.v)]))
                 ELSE results

\* the forEach of lines 213-226: a word on which decrypt throws is skipped
RECURSIVE tryWords(_, _, _, _)
tryWords(ciphertext, wordsToTry, k, results) ==
    IF k > Len(wordsToTry) THEN results
    ELSE LET word == wordsToTry[k]
             plaintext == decrypt(ciphertext, word)
         IN  IF Returned(plaintext)
                 THEN tryWords(ciphertext, wordsToTry, k + 1,
                          Append(results,
                                 [key |-> word,
                                  plaintext |-> plaintext.val,
                                  score |-> calculateTextScore(plaintext.val.v)]))
                 ELSE tryWords(ciphertext, wordsToTry, k + 1, results)

\* wordsToTry with the caller's list ignored
wordsToTry_alwaysDefaults(commonWords) == defaultWords

\* wordsToTry with the default words tried after the caller's
wordsToTry_defaultsAppended(commonWords) ==
    LET given == IF commonWords = Undefined THEN <<>> ELSE commonWords.v
    IN  given \o defaultWords

\* the word list of line 210; an omitted commonWords is the default []
wordsToTry(commonWords) ==
    LET given == IF commonWords = Undefined THEN <<>> ELSE commonWords.v
    IN  IF Len(given) > 0 THEN given ELSE defaultWords

bruteForce(ciphertext, commonWords) ==
    IF ~IsString(ciphertext) \/ Len(ciphertext.v) = 0
        THEN Throw("Error", "Ciphertext cannot be empty")
    ELSE IF commonWords = Null
        THEN Throw("TypeError", "Cannot read properties of null (reading 'length')")
    ELSE Return(Arr(sort(tryWords(ciphertext, wordsToTry(commonWords), 1, <<>>),
                         "byScore")))

(***************************************************************************)
(* getDivisors (vigenereCipher.js 241-252)                                 *)
(***************************************************************************)
\* the loop of lines 243-250: d <= Math.sqrt(num) is d * d <= num
RECURSIVE divisorLoop(_, _, _)
divisorLoop(num, d, divisors) ==
    IF d * d > num THEN divisors
    ELSE IF num % d = 0
        THEN divisorLoop(num, d + 1,
                 IF d # num \div d
                     THEN Append(Append(divisors, d), num \div d)
                     ELSE Append(divisors, d))
        ELSE divisorLoop(num, d + 1, divisors)

\* getDivisors without the final sort
getDivisors_unsorted(num) == divisorLoop(num, 1, <<>>)

\* getDivisors without the divisor 1
getDivisors_withoutOne(num) ==
    SelectSeq(sort(divisorLoop(num, 1, <<>>), "ascending"), LAMBDA d : d # 1)

getDivisors(num) == sort(divisorLoop(num, 1, <<>>), "ascending")

(***************************************************************************)
(* analyze (vigenereCipher.js 266-315).  A Map is the sequence of its      *)
(* entries in insertion order, which is the order forEach and entries()    *)
(* visit them in.                                                          *)
(***************************************************************************)
\* the index of the entry of map m with key k, 0 if there is none
mapIndex(m, k) ==
    IF \E j \in 1..Len(m) : m[j].k = k
        THEN CHOOSE j \in 1..Len(m) : m[j].k = k
        ELSE 0

\* ciphertext.toUpperCase().replace(/[^A-Z]/g, '')
stripToUpper(s) == SelectSeq(toUpperCase(s), IsUpper)

\* findSequences with the loop ended one offset early (i < length - width)
RECURSIVE findSequences_skipsLastWindow(_, _, _, _)
findSequences_skipsLastWindow(cipherUpper, sequenceLength, p, sequences) ==
    IF p >= Len(cipherUpper) - sequenceLength THEN sequences
    ELSE LET sequence == SubSeq(cipherUpper, p + 1, p + sequenceLength)
             at == mapIndex(sequences, sequence)
         IN  IF at # 0
                 THEN findSequences_skipsLastWindow(cipherUpper, sequenceLength, p + 1,
                          [sequences EXCEPT ![at].val = Append(@, p)])
                 ELSE findSequences_skipsLastWindow(cipherUpper, sequenceLength, p + 1,
                          Append(sequences, [k |-> sequence, val |-> <<p>>]))

\* the loop of lines 275-282; p is the 0-based offset i of the source
RECURSIVE findSequences(_, _, _, _)
findSequences(cipherUpper, sequenceLength, p, sequences) ==
    IF p > Len(cipherUpper) - sequenceLength THEN sequences
    ELSE LET sequence == SubSeq(cipherUpper, p + 1, p + sequenceLength)
             at == mapIndex(sequences, sequence)
         IN  IF at # 0
                 THEN findSequences(cipherUpper, sequenceLength, p + 1,
                          [sequences EXCEPT ![at].val = Append(@, p)])
                 ELSE findSequences(cipherUpper, sequenceLength, p + 1,
                          Append(sequences, [k |-> sequence, val |-> <<p>>]))

\* gaps measured from the first position instead of the one before
gaps_fromFirst(positions) ==
    [j \in 1..(Len(positions) - 1) |-> positions[j + 1] - positions[1]]

\* the for loop of lines 288-290: the gaps between consecutive positions
gaps(positions) ==
    [j \in 1..(Len(positions) - 1) |-> positions[j + 1] - positions[j]]

\* the forEach of lines 286-292
RECURSIVE collectDistances(_, _, _)
collectDistances(sequences, j, distances) ==
    IF j > Len(sequences) THEN distances
    ELSE IF Len(sequences[j].val) > 1
        THEN collectDistances(sequences, j + 1, distances \o gaps(sequences[j].val))
        ELSE collectDistances(sequences, j + 1, distances)

\* the inner forEach of lines 298-300
RECURSIVE tallyDivisors(_, _, _)
tallyDivisors(divisors, j, factors) ==
    IF j > Len(divisors) THEN factors
    ELSE LET at == mapIndex(factors, divisors[j])
         IN  IF at # 0
                 THEN tallyDivisors(divisors, j + 1,
                          [factors EXCEPT ![at].val = @ + 1])
                 ELSE tallyDivisors(divisors, j + 1,
                          Append(factors, [k |-> divisors[j], val |-> 1]))

\* the forEach of lines 296-301
RECURSIVE tallyDistances(_, _, _)
tallyDistances(distances, j, factors) ==
    IF j > Len(distances) THEN factors
    ELSE tallyDistances(distances, j + 1,
             tallyDivisors(getDivisors(distances[j]), 1, factors))

\* keyLengthsOf keeping three divisors instead of five
keyLengthsOf_topThree(factors) ==
    LET top == slice0(sort(factors, "byFrequency"), 3)
    IN  [j \in 1..Len(top) |-> top[j].k]

\* lines 304-307
keyLengthsOf(factors) ==
    LET top == slice0(sort(factors, "byFrequency"), 5)
    IN  [j \in 1..Len(top) |-> top[j].k]

Obj(r) == [t |-> "object", v |-> <<r>>]

\* an omitted sequenceLength is the default 3
sequenceLengthOf(sequenceLength) ==
    IF sequenceLength = Undefined THEN 3 ELSE sequenceLength.v[1]

\* analyze with the length check applied to the letters that are left
analyze_countsLetters(ciphertext, sequenceLength) ==
    IF ~IsString(ciphertext)
           \/ Len(stripToUpper(ciphertext.v)) < sequenceLengthOf(sequenceLength)
        THEN Throw("Error", "Ciphertext too short for analysis")
    ELSE LET n == sequenceLengthOf(sequenceLength)
             sequences == findSequences(stripToUpper(ciphertext.v), n, 0, <<>>)
             distances == collectDistances(sequences, 1, <<>>)
             factors == tallyDistances(distances, 1, <<>>)
             keyLengths == keyLengthsOf(factors)
         IN  Return(Obj([keyLengths |-> keyLengths,
                         distances |-> slice0(distances, 10),
                         likelyKeyLength |->
                             IF Len(keyLengths) > 0 THEN Num(keyLengths[1], 1) ELSE Null,
                         repetitionCount |-> Len(distances)]))

analyze(ciphertext, sequenceLength) ==
    IF ~IsString(ciphertext) \/ Len(ciphertext.v) < sequenceLengthOf(sequenceLength)
        THEN Throw("Error", "Ciphertext too short for analysis")
    ELSE LET n == sequenceLengthOf(sequenceLength)
             sequences == findSequences(stripToUpper(ciphertext.v), n, 0, <<>>)
             distances == collectDistances(sequences, 1, <<>>)
             factors == tallyDistances(distances, 1, <<>>)
             keyLengths == keyLengthsOf(factors)
         IN  Return(Obj([keyLengths |-> keyLengths,
                         distances |-> slice0(distances, 10),
                         likelyKeyLength |->
                             IF Len(keyLengths) > 0 THEN Num(keyLengths[1], 1) ELSE Null,
                         repetitionCount |-> Len(distances)]))

(***************************************************************************)
(* The Caesar cipher (unnamed/part_002 17-98).  Its encrypt and decrypt    *)
(* are named caesarEncrypt and caesarDecrypt here.                         *)
(***************************************************************************)
\* an omitted shift is the default 3
shiftOf(shift) == IF shift = Undefined THEN Num(3, 1) ELSE shift

\* Number.isInteger
isInteger(x) == x.t = "number" /\ x.v[2] # 0 /\ x.v[1] % x.v[2] = 0

\* validateShift (lines 37-44): the outcome is a throw or a plain return
validateShift(shift) ==
    IF ~isInteger(shift)
        THEN Throw("InvalidShiftError", "Shift must be an integer")
    ELSE IF shift.v[1] \div shift.v[2] < 1 \/ shift.v[1] \div shift.v[2] > 25
        THEN Throw("InvalidShiftError", "Shift must be between 1 and 25")
    ELSE Return(Undefined)

\* caesarChar with the letter left where the alphabet ends
caesarChar_noWrap(char, shift) ==
    IF IsLower(char) THEN char + shift
    ELSE IF IsUpper(char) THEN char + shift
    ELSE char

\* the callback of lines 66-74
caesarChar(char, shift) ==
    IF IsLower(char) THEN JsRem(char - 97 + shift, 26) + 97
    ELSE IF IsUpper(char) THEN JsRem(char - 65 + shift, 26) + 65
    ELSE char

\* encrypt of the Caesar module (lines 57-76)
caesarEncrypt(plaintext, shift) ==
    IF ~IsString(plaintext)
        THEN Throw("TypeError", "Plaintext must be a string")
    ELSE LET validated == validateShift(shiftOf(shift))
             n == shiftOf(shift).v[1] \div shiftOf(shift).v[2]
         IN  IF ~Returned(validated) THEN validated
             ELSE Return(Str([k \in 1..Len(plaintext.v) |->
                                 caesarChar(plaintext.v[k], n)]))

\* caesarDecrypt with the shift itself handed to encrypt
caesarDecrypt_sameShift(ciphertext, shift) ==
    IF ~IsString(ciphertext)
        THEN Throw("TypeError", "Ciphertext must be a string")
    ELSE LET validated == validateShift(shiftOf(shift))
         IN  IF ~Returned(validated) THEN validated
             ELSE caesarEncrypt(ciphertext, shiftOf(shift))

\* decrypt of the Caesar module (lines 89-98)
caesarDecrypt(ciphertext, shift) ==
    IF ~IsString(ciphertext)
        THEN Throw("TypeError", "Ciphertext must be a string")
    ELSE LET validated == validateShift(shiftOf(shift))
             n == shiftOf(shift).v[1] \div shiftOf(shift).v[2]
         IN  IF ~Returned(validated) THEN validated
             ELSE caesarEncrypt(ciphertext, Num(26 - n, 1))

(***************************************************************************)
(* ROT13 (unnamed/part_002 179-244)                                        *)
(***************************************************************************)
\* the callback of lines 204-212
rot13Char(char) ==
    IF IsLower(char) THEN JsRem(char - 97 + 13, 26) + 97
    ELSE IF IsUpper(char) THEN JsRem(char - 65 + 13, 26) + 65
    ELSE char

\* encode (lines 197-214)
encode(text) ==
    IF ~IsString(text)
        THEN Throw("TypeError", "Text must be a string")
    ELSE Return(Str([k \in 1..Len(text.v) |-> rot13Char(text.v[k])]))

\* isRot13Symmetric (lines 238-244)
isRot13Symmetric(text) ==
    IF ~IsString(text)
        THEN Throw("TypeError", "Text must be a string")
    ELSE Return(Bool(encode(encode(text).val).val = text))

(***************************************************************************)
(* The Braille converter (brailleConverter.js 17-137).  A string is a      *)
(* sequence of code units; the Braille cells are U+2800..U+283F.           *)
(***************************************************************************)
\* Object.entries(BRAILLE_DICT): the digit keys come first, in ascending
\* order, then the other keys in the order they are written (lines 17-80)
BRAILLE_DICT ==
    << [char |-> <<48>>, braille |-> <<10300, 10292>>],
       [char |-> <<49>>, braille |-> <<10300, 10241>>],
       [char |-> <<50>>, braille |-> <<10300, 10243>>],
       [char |-> <<51>>, braille |-> <<10300, 10249>>],
       [char |-> <<52>>, braille |-> <<10300, 10265>>],
       [char |-> <<53>>, braille |-> <<10300, 10257>>],
       [char |-> <<54>>, braille |-> <<10300, 10251>>],
       [char |-> <<55>>, braille |-> <<10300, 10267>>],
       [char |-> <<56>>, braille |-> <<10300, 10259>>],
       [char |-> <<57>>, braille |-> <<10300, 10266>>],
       [char |-> <<65>>, braille |-> <<10241>>],
       [char |-> <<66>>, braille |-> <<10243>>],
       [char |-> <<67>>, braille |-> <<10249>>],
       [char |-> <<68>>, braille |-> <<10265>>],
       [char |-> <<69>>, braille |-> <<10257>>],
       [char |-> <<70>>, braille |-> <<10251>>],
       [char |-> <<71>>, braille |-> <<10267>>],
       [char |-> <<72>>, braille |-> <<10259>>],
       [char |-> <<73>>, braille |-> <<10250>>],
       [char |-> <<74>>, braille |-> <<10266>>],
       [char |-> <<75>>, braille |-> <<10245>>],
       [char |-> <<76>>, braille |-> <<10247>>],
       [char |-> <<77>>, braille |-> <<10253>>],
       [char |-> <<78>>, braille |-> <<10269>>],
       [char |-> <<79>>, braille |-> <<10261>>],
       [char |-> <<80>>, braille |-> <<10255>>],
       [char |-> <<81>>, braille |-> <<10271>>],
       [char |-> <<82>>, braille |-> <<10263>>],
       [char |-> <<83>>, braille |-> <<10254>>],
       [char |-> <<84>>, braille |-> <<10270>>],
       [char |-> <<85>>, braille |-> <<10277>>],
       [char |-> <<86>>, braille |-> <<10279>>],
       [char |-> <<87>>, braille |-> <<10298>>],
       [char |-> <<88>>, braille |-> <<10285>>],
       [char |-> <<89>>, braille |-> <<10301>>],
       [char |-> <<90>>, braille |-> <<10293>>],
       [char |-> <<46>>, braille |-> <<10296>>],
       [char |-> <<44>>, braille |-> <<10256>>],
       [char |-> <<59>>, braille |-> <<10288>>],
       [char |-> <<58>>, braille |-> <<10289>>],
       [char |-> <<33>>, braille |-> <<10286>>],
       [char |-> <<63>>, braille |-> <<10297>>],
       [char |-> <<39>>, braille |-> <<10244>>],
       [char |-> <<34>>, braille |-> <<10242>>],
       [char |-> <<40>>, braille |-> <<10294>>],
       [char |-> <<41>>, braille |-> <<10302>>],
       [char |-> <<45>>, braille |-> <<10276>>],
       [char |-> <<47>>, braille |-> <<10296, 10252>>],
       [char |-> <<38>>, braille |-> <<10287>>],
       [char |-> <<64>>, braille |-> <<10268>>],
       [char |-> <<35>>, braille |-> <<10300>>],
       [char |-> <<36>>, braille |-> <<10290>>],
       [char |-> <<37>>, braille |-> <<10282>>],
       [char |-> <<42>>, braille |-> <<10299>>],
       [char |-> <<43>>, braille |-> <<10284>>],
       [char |-> <<61>>, braille |-> <<10303>>],
       [char |-> <<32>>, braille |-> <<10240>>],
       [char |-> <<95>>, braille |-> <<10272>>] >>

\* BRAILLE_DICT[char], or undefined when char is no key
dictLookup(char) ==
    IF \E e \in 1..Len(BRAILLE_DICT) : BRAILLE_DICT[e].char = char
        THEN Str(BRAILLE_DICT[CHOOSE e \in 1..Len(BRAILLE_DICT) :
                                  BRAILLE_DICT[e].char = char].braille)
        ELSE Undefined

\* REVERSE_BRAILLE_DICT[braille] after the forEach of lines 83-86: the char of
\* the last entry written under that key, or undefined
reverseLookup(braille) ==
    LET under == {e \in 1..Len(BRAILLE_DICT) : BRAILLE_DICT[e].braille = braille}
    IN  IF under = {} THEN Undefined
        ELSE Str(BRAILLE_DICT[CHOOSE e \in under : \A f \in under : f <= e].char)

\* Array.prototype.join(''): the parts one after the other
RECURSIVE join(_)
join(parts) ==
    IF parts = <<>> THEN <<>> ELSE Head(parts) \o join(Tail(parts))

\* x || '?'
orQuestionMark(x) == IF x = Undefined THEN <<63>> ELSE x.v

\* textToBraille (lines 103-113)
textToBraille(text) ==
    IF ~IsString(text)
        THEN Throw("TypeError", "Text must be a string")
    ELSE LET upper == toUpperCase(text.v)
         IN  Return(Str(join([k \in 1..Len(upper) |->
                                 orQuestionMark(dictLookup(<<upper[k]>>))])))

\* brailleToText (lines 127-137)
brailleToText(braille) ==
    IF ~IsString(braille)
        THEN Throw("TypeError", "Braille must be a string")
    ELSE Return(Str(join([k \in 1..Len(braille.v) |->
                            orQuestionMark(reverseLookup(<<braille.v[k]>>))])))

(***************************************************************************)
(* generateKey (vigenereCipher.js 349-362).  The loop is run one iteration *)
(* per step, because each iteration draws from Math.random().              *)
(***************************************************************************)
\* the default of the length parameter
DefaultKeyLength == 8

\* an omitted length is the default
lengthOf(length) == IF length = Undefined THEN Num(DefaultKeyLength, 1) ELSE length

\* typeof length !== 'number' || length < 1; a comparison with NaN is false
lengthRejected(length) ==
    \/ length.t # "number"
    \/ (length.v[2] # 0 /\ length.v[1] < length.v[2])

\* i < length, for the number length = v[1] / v[2]
lessThanLength(n, length) ==
    length.v[2] # 0 /\ n * length.v[2] < length.v[1]

\* chars = 'ABCDEFGHIJKLMNOPQRSTUVWXYZ'
chars == Lit(UpperAlphabet)

\* String.prototype.charAt: the empty string outside the string
charAt(s, n) == IF n >= 0 /\ n < Len(s) THEN <<s[n + 1]>> ELSE <<>>

\* the values Math.floor(Math.random() * n) is drawn from: Math.random() is
\* in [0, 1), so they range over 0..n-1; the first, the middle and the last
\* of them are drawn
randomIndexes(n) == {0, n \div 2, n - 1}

(***************************************************************************)
(* Inputs of the cipher calls.                                             *)
(***************************************************************************)
\* code units of the enumerated texts: A, Z, z (both ends of the alphabets,
\* both cases) and the digit 1 (a non-letter)
TextChars == {65, 90, 122, 49}

\* code units of the enumerated keys: A (shift 0), B and b (shift 1 in both
\* cases) and the digit 1 (a string encrypt accepts although it is no letter)
KeyChars == {65, 66, 98, 49}

\* values that are no strings
NonStrings == {Num(123, 1), Null}

\* the texts and keys of the documented examples and of the test suite
SampleTexts ==
    { Lit(<<"H","E","L","L","O","W","O","R","L","D">>),
      Lit(<<"A","T","T","A","C","K">>),
      Lit(<<"H","E","L","L","O",","," ","W","O","R","L","D","!">>),
      Lit(<<"H","e","l","l","o"," ","W","o","r","l","d">>) }

SampleKeys ==
    { Lit(<<"K","E","Y">>), Lit(<<"L","I","M","E">>),
      Lit(<<"S","E","C","R","E","T">>) }

\* texts whose letters are not all ASCII: the Kelvin sign alone and after a
\* letter
CaseTexts == { <<KelvinSign>>, <<65, KelvinSign>> }

\* 'THE' repeated: three times, the fewest that repeat a window of three
\* letters under a key of two letters, and the plaintext of the analyze test
PeriodicTexts ==
    { Lit(<<"T","H","E","T","H","E","T","H","E">>),
      Lit(<<"T","H","E","T","H","E","T","H","E","T","H","E","T","H","E",
              "T","H","E","T","H","E","H","E">>) }

\* the ciphertext the documentation of encrypt and decrypt gives for
\* 'Hello World' under 'SECRET'
DocumentedTexts ==
    { Lit(<<"Z","i","j","j","b"," ","W","b","u","o","g">>) }

Texts ==
    {Str(s) : s \in SeqsUpTo(TextChars, MaxLen) \cup SampleTexts \cup CaseTexts
                            \cup PeriodicTexts \cup DocumentedTexts}

\* keys of one repeated letter: 'Z' and 'N', and 'A' a hundred times as in
\* the test of a very long key
ShiftKeys == { <<90>>, <<78>>, [j \in 1..100 |-> 65] }

Keys == {Str(s) : s \in SeqsUpTo(KeyChars, MaxKeyLen) \cup SampleKeys \cup ShiftKeys}

\* the keys tried against an existing ciphertext
EnumKeys == {Str(s) : s \in SeqsUpTo(KeyChars, MaxKeyLen)}

(***************************************************************************)
(* The calls.  A call is one step: it records the function, its arguments  *)
(* and its outcome.  origin is the call whose result a follow-up call was  *)
(* given, as the round-trip tests do.                                      *)
(***************************************************************************)
NoCall == [fn |-> "none", args |-> <<>>, ret |-> Return(Undefined)]

Init ==
    /\ pc = "idle"
    /\ fn = "none"
    /\ args = <<>>
    /\ ret = Return(Undefined)
    /\ origin = NoCall
    /\ i = 0
    /\ key = <<>>

\* the arguments the cipher calls are tried with
PlainArgs == Texts \cup NonStrings

KeyArgs == Keys \cup NonStrings

\* encrypt(P, K)
Encrypt ==
    /\ pc = "idle"
    /\ \E P \in PlainArgs, K \in KeyArgs :
          /\ args' = <<P, K>>
          /\ ret' = encrypt(P, K)
    /\ pc' = "done"
    /\ fn' = "encrypt"
    /\ UNCHANGED <<origin, i, key>>

\* decrypt(C, K)
Decrypt ==
    /\ pc = "idle"
    /\ \E C \in PlainArgs, K \in KeyArgs :
          /\ args' = <<C, K>>
          /\ ret' = decrypt(C, K)
    /\ pc' = "done"
    /\ fn' = "decrypt"
    /\ UNCHANGED <<origin, i, key>>

\* verify(P, C, K)
Verify ==
    /\ pc = "idle"
    /\ \E P \in {Str(<<65>>), Null}, C \in {Str(<<66>>), Null}, K \in KeyArgs :
          /\ args' = <<P, C, K>>
          /\ ret' = verify(P, C, K)
    /\ pc' = "done"
    /\ fn' = "verify"
    /\ UNCHANGED <<origin, i, key>>

\* const encrypted = encrypt(P, K); decrypt(encrypted, K)
DecryptResult ==
    /\ pc = "done"
    /\ fn = "encrypt"
    /\ origin = NoCall
    /\ Returned(ret)
    /\ fn' = "decrypt"
    /\ args' = <<ret.val, args[2]>>
    /\ ret' = decrypt(ret.val, args[2])
    /\ origin' = [fn |-> fn, args |-> args, ret |-> ret]
    /\ UNCHANGED <<pc, i, key>>

\* const ct = encrypt(P, K); verify(P, ct, K2)
VerifyResult ==
    /\ pc = "done"
    /\ fn = "encrypt"
    /\ origin = NoCall
    /\ Returned(ret)
    /\ Len(args[1].v) <= MaxVerifyLen
    /\ \E K2 \in EnumKeys \cup NonStrings :
          /\ args' = <<args[1], ret.val, K2>>
          /\ ret' = verify(args[1], ret.val, K2)
    /\ fn' = "verify"
    /\ origin' = [fn |-> fn, args |-> args, ret |-> ret]
    /\ UNCHANGED <<pc, i, key>>

\* const ct = encrypt(P, K); encrypt(P, K.toLowerCase())
EncryptLowerKey ==
    /\ pc = "done"
    /\ fn = "encrypt"
    /\ origin = NoCall
    /\ Returned(ret)
    /\ args' = <<args[1], Str(toLowerCase(args[2].v))>>
    /\ ret' = encrypt(args[1], Str(toLowerCase(args[2].v)))
    /\ origin' = [fn |-> fn, args |-> args, ret |-> ret]
    /\ UNCHANGED <<pc, fn, i, key>>

\* const ct = encrypt(P, K); verify(P, ct.toLowerCase(), K)
VerifyLowered ==
    /\ pc = "done"
    /\ fn = "encrypt"
    /\ origin = NoCall
    /\ Returned(ret)
    /\ fn' = "verify"
    /\ args' = <<args[1], Str(toLowerCase(ret.val.v)), args[2]>>
    /\ ret' = verify(args[1], Str(toLowerCase(ret.val.v)), args[2])
    /\ origin' = [fn |-> fn, args |-> args, ret |-> ret]
    /\ UNCHANGED <<pc, i, key>>

(***************************************************************************)
(* bruteForce, analyze and generateKey calls.                              *)
(***************************************************************************)
\* code units of the enumerated bruteForce ciphertexts: A, B, E and 1
BruteChars == {65, 66, 69, 49}

BruteTexts ==
    {Str(s) : s \in SeqsUpTo(BruteChars, MaxBruteLen)
                      \cup {Lit(<<"R","I","J","V","S","U","Y","V","J","N">>)}}

\* the candidate words: letter keys, the empty string and a number
BruteWords ==
    { Str(<<65>>), Str(<<66>>), Str(Lit(<<"K","E","Y">>)), Str(<<>>), Num(123, 1) }

WordLists == {Undefined} \cup {Arr(w) : w \in SeqsUpTo(BruteWords, MaxWords)}

\* bruteForce(ciphertext, commonWords)
BruteForce ==
    /\ pc = "idle"
    /\ \E C \in BruteTexts \cup NonStrings, W \in WordLists \cup {Null} :
          /\ args' = <<C, W>>
          /\ ret' = bruteForce(C, W)
    /\ pc' = "done"
    /\ fn' = "bruteForce"
    /\ UNCHANGED <<origin, i, key>>

\* const ciphertext = encrypt(P, K); bruteForce(ciphertext, [K])
BruteForceResult ==
    /\ pc = "done"
    /\ fn = "encrypt"
    /\ origin = NoCall
    /\ Returned(ret)
    /\ fn' = "bruteForce"
    /\ args' = <<ret.val, Arr(<<args[2]>>)>>
    /\ ret' = bruteForce(ret.val, Arr(<<args[2]>>))
    /\ origin' = [fn |-> fn, args |-> args, ret |-> ret]
    /\ UNCHANGED <<pc, i, key>>

\* code units of the enumerated analyze ciphertexts: A, B, c and the space
AnalyzeChars == {65, 66, 99, 32}

\* the documented example, 'THE' repeated under the key 'AB', a text whose
\* only repeat is 12 apart, and the texts of the tests
AnalyzeSamples ==
    { Lit(<<"R","I","J","V","S","U","Y","V","J","N",
            "R","I","J","V","S","U","Y","V","J","N">>),
      Lit(<<"T","I","E","U","H","F","T","I","E","U","H","F">>),
      Lit(<<"A","B","C","D","E","F","G","H","I","J","K","L","A">>),
      Lit(<<"A","B","C","D","E","F","G","H","I","J","K","L","M","N","O","P","Q","R","S","T">>) }

AnalyzeTexts ==
    {Str(s) : s \in SeqsUpTo(AnalyzeChars, MaxAnalyzeLen) \cup AnalyzeSamples}

SequenceLengths == {Undefined} \cup {Num(n, 1) : n \in 1..MaxSeqLen}

\* analyze(ciphertext, sequenceLength)
Analyze ==
    /\ pc = "idle"
    /\ \E C \in AnalyzeTexts \cup NonStrings, n \in SequenceLengths :
          /\ args' = <<C, n>>
          /\ ret' = analyze(C, n)
    /\ pc' = "done"
    /\ fn' = "analyze"
    /\ UNCHANGED <<origin, i, key>>

\* const ciphertext = encrypt(P, K); analyze(ciphertext, 3)
AnalyzeResult ==
    /\ pc = "done"
    /\ fn = "encrypt"
    /\ origin = NoCall
    /\ Returned(ret)
    /\ fn' = "analyze"
    /\ args' = <<ret.val, Num(3, 1)>>
    /\ ret' = analyze(ret.val, Num(3, 1))
    /\ origin' = [fn |-> fn, args |-> args, ret |-> ret]
    /\ UNCHANGED <<pc, i, key>>

(***************************************************************************)
(* Calls of the Caesar module.                                             *)
(***************************************************************************)
\* the shifts: omitted, every integer from -1 to 27, 1.5, NaN, the string '3'
\* and null
CaesarShifts ==
    {Undefined, Num(3, 2), Num(0, 0), Str(Lit(<<"3">>)), Null}
        \cup {Num(n, 1) : n \in (-1)..27}

\* encrypt(P, s) of the Caesar module
CaesarEncrypt ==
    /\ pc = "idle"
    /\ \E P \in PlainArgs, s \in CaesarShifts :
          /\ args' = <<P, s>>
          /\ ret' = caesarEncrypt(P, s)
    /\ pc' = "done"
    /\ fn' = "caesarEncrypt"
    /\ UNCHANGED <<origin, i, key>>

\* const encrypted = encrypt(P, s); decrypt(encrypted, s)
CaesarDecryptResult ==
    /\ pc = "done"
    /\ fn = "caesarEncrypt"
    /\ origin = NoCall
    /\ Returned(ret)
    /\ fn' = "caesarDecrypt"
    /\ args' = <<ret.val, args[2]>>
    /\ ret' = caesarDecrypt(ret.val, args[2])
    /\ origin' = [fn |-> fn, args |-> args, ret |-> ret]
    /\ UNCHANGED <<pc, i, key>>

\* the Vigenere encrypt(P, L) of a one-letter key L, then the Caesar
\* encrypt(P, index of L)
CaesarOfKeyLetter ==
    /\ pc = "done"
    /\ fn = "encrypt"
    /\ origin = NoCall
    /\ Returned(ret)
    /\ Len(args[2].v) = 1
    /\ IsUpper(args[2].v[1])
    /\ fn' = "caesarEncrypt"
    /\ args' = <<args[1], Num(args[2].v[1] - 65, 1)>>
    /\ ret' = caesarEncrypt(args[1], Num(args[2].v[1] - 65, 1))
    /\ origin' = [fn |-> fn, args |-> args, ret |-> ret]
    /\ UNCHANGED <<pc, i, key>>

\* the texts of the ROT13 tests: 'HELLO', 'HELLO WORLD' and encode('NON')
Rot13Texts ==
    { Str(Lit(<<"H","E","L","L","O">>)),
      Str(Lit(<<"H","E","L","L","O"," ","W","O","R","L","D">>)),
      Str(Lit(<<"A","B","A">>)) }

\* isRot13Symmetric(text)
IsRot13Symmetric ==
    /\ pc = "idle"
    /\ \E text \in PlainArgs \cup Rot13Texts :
          /\ args' = <<text>>
          /\ ret' = isRot13Symmetric(text)
    /\ pc' = "done"
    /\ fn' = "isRot13Symmetric"
    /\ UNCHANGED <<origin, i, key>>

(***************************************************************************)
(* Calls of the Braille converter.                                         *)
(***************************************************************************)
\* code units of the enumerated Braille texts: A, b, 1, the slash, the full
\* stop, the space and the tilde, which the converter has no cell for
BrailleChars == {65, 98, 49, 47, 46, 32, 126}

\* the texts of the tests
BrailleSamples ==
    { Lit(<<"H","E","L","L","O">>),
      Lit(<<"H","E","L","L","O"," ","W","O","R","L","D">>),
      Lit(<<"2","0","2","4"," ","1","0"," ","3","1">>) }

\* every key of the dictionary as a text of one character, the enumerated
\* texts and the samples
BrailleTexts ==
    {Str(s) : s \in {BRAILLE_DICT[e].char : e \in 1..Len(BRAILLE_DICT)}
                      \cup SeqsUpTo(BrailleChars, MaxBrailleLen)
                      \cup BrailleSamples}

\* textToBraille(text)
TextToBraille ==
    /\ pc = "idle"
    /\ \E text \in BrailleTexts \cup NonStrings :
          /\ args' = <<text>>
          /\ ret' = textToBraille(text)
    /\ pc' = "done"
    /\ fn' = "textToBraille"
    /\ UNCHANGED <<origin, i, key>>

\* const braille = textToBraille(text); brailleToText(braille)
BrailleToTextResult ==
    /\ pc = "done"
    /\ fn = "textToBraille"
    /\ origin = NoCall
    /\ Returned(ret)
    /\ fn' = "brailleToText"
    /\ args' = <<ret.val>>
    /\ ret' = brailleToText(ret.val)
    /\ origin' = [fn |-> fn, args |-> args, ret |-> ret]
    /\ UNCHANGED <<pc, i, key>>

\* brailleToText(braille) on something that is no string
BrailleToText ==
    /\ pc = "idle"
    /\ \E braille \in NonStrings :
          /\ args' = <<braille>>
          /\ ret' = brailleToText(braille)
    /\ pc' = "done"
    /\ fn' = "brailleToText"
    /\ UNCHANGED <<origin, i, key>>

\* the length arguments: omitted, the halves from -1 to MaxGenLen, NaN, the
\* string '10' and null
KeyLengths ==
    {Undefined, Num(0, 0), Str(Lit(<<"1","0">>)), Null}
        \cup {Num(n, 2) : n \in (-2)..(2 * MaxGenLen)}

\* generateKey(length): lines 349-355, up to the loop
GenerateKey ==
    /\ pc = "idle"
    /\ \E length \in KeyLengths :
          /\ args' = <<length>>
          /\ IF lengthRejected(lengthOf(length))
                 THEN /\ ret' = Throw("Error", "Key length must be a positive number")
                      /\ pc' = "done"
                 ELSE /\ ret' = ret
                      /\ pc' = "generateKey_loop"
    /\ fn' = "generateKey"
    /\ i' = 0
    /\ key' = <<>>
    /\ UNCHANGED origin

\* one iteration of the loop of lines 357-359
GenerateKeyStep ==
    /\ pc = "generateKey_loop"
    /\ lessThanLength(i, lengthOf(args[1]))
    /\ \E r \in randomIndexes(Len(chars)) : key' = key \o charAt(chars, r)
    /\ i' = i + 1
    /\ UNCHANGED <<pc, fn, args, ret, origin>>

\* the loop's exit and line 361
GenerateKeyReturn ==
    /\ pc = "generateKey_loop"
    /\ ~lessThanLength(i, lengthOf(args[1]))
    /\ ret' = Return(Str(key))
    /\ pc' = "done"
    /\ UNCHANGED <<fn, args, origin, i, key>>

\* the plaintexts encrypted under a generated key: 'HELLO' of the test, the
\* empty string and a text of both cases with a non-letter
GeneratedTexts ==
    { Str(Lit(<<"H","E","L","L","O">>)), Str(<<>>), Str(Lit(<<"a","-","Z">>)) }

\* const key = generateKey(n); encrypt(P, key)
EncryptGenerated ==
    /\ pc = "done"
    /\ fn = "generateKey"
    /\ Returned(ret)
    /\ \E P \in GeneratedTexts :
          /\ args' = <<P, ret.val>>
          /\ ret' = encrypt(P, ret.val)
    /\ fn' = "encrypt"
    /\ origin' = [fn |-> fn, args |-> args, ret |-> ret]
    /\ UNCHANGED <<pc, i, key>>

\* const encrypted = encrypt(P, key); decrypt(encrypted, key)
DecryptGenerated ==
    /\ pc = "done"
    /\ fn = "encrypt"
    /\ origin.fn = "generateKey"
    /\ Returned(ret)
    /\ fn' = "decrypt"
    /\ args' = <<ret.val, args[2]>>
    /\ ret' = decrypt(ret.val, args[2])
    /\ origin' = [fn |-> fn, args |-> args, ret |-> ret]
    /\ UNCHANGED <<pc, i, key>>

Next ==
    \/ Encrypt
    \/ Decrypt
    \/ Verify
    \/ DecryptResult
    \/ VerifyResult
    \/ VerifyLowered
    \/ EncryptLowerKey
    \/ BruteForce
    \/ BruteForceResult
    \/ Analyze
    \/ AnalyzeResult
    \/ GenerateKey
    \/ GenerateKeyStep
    \/ GenerateKeyReturn
    \/ EncryptGenerated
    \/ DecryptGenerated
    \/ CaesarEncrypt
    \/ CaesarDecryptResult
    \/ CaesarOfKeyLetter
    \/ IsRot13Symmetric
    \/ TextToBraille
    \/ BrailleToTextResult
    \/ BrailleToText

Spec == Init /\ [][Next]_vars

(***************************************************************************)
(* Properties of encrypt, decrypt and verify.                              *)
(***************************************************************************)
\* a key as the data model describes it: a non-empty string of ASCII letters
ValidKey(k) ==
    /\ IsString(k)
    /\ Len(k.v) >= 1
    /\ \A j \in 1..Len(k.v) : IsLetter(k.v[j])

\* A=0 .. Z=25 of a letter, whatever its case
AlphabetIndex(c) == IF IsLower(c) THEN c - 97 ELSE c - 65

\* the number of letters of s before position k
LettersBefore(s, k) == Cardinality({j \in 1..(k - 1) : IsLetter(s[j])})

HasMixedContent(s) ==
    /\ \E j \in 1..Len(s) : IsUpper(s[j])
    /\ \E j \in 1..Len(s) : IsLower(s[j])
    /\ \E j \in 1..Len(s) : ~IsLetter(s[j])

\* a state in which decrypt was given the result of encrypt and the same key
IsRoundTrip ==
    /\ pc = "done"
    /\ fn = "decrypt"
    /\ origin.fn = "encrypt"
    /\ args = <<origin.ret.val, origin.args[2]>>

\* C1: Vigenere round trip: for every plaintext P and every non-empty key K of
\* ASCII letters, decrypt(encrypt(P, K), K) returns P.
C1_RoundTrip ==
    (IsRoundTrip /\ ValidKey(origin.args[2])) => ret = Return(origin.args[1])

\* a round trip of a text with both cases and a non-letter, under a key of two
\* letters, whose ciphertext differs from the plaintext
C1_Witness ==
    /\ IsRoundTrip
    /\ ValidKey(origin.args[2])
    /\ Len(origin.args[2].v) >= 2
    /\ HasMixedContent(origin.args[1].v)
    /\ args[1] # origin.args[1]
    /\ ret = Return(origin.args[1])

\* the reference Vigenere transform of the text P under the letter key K
Vigenere(P, K) ==
    [k \in 1..Len(P) |->
        LET shift == AlphabetIndex(K[(LettersBefore(P, k) % Len(K)) + 1])
        IN  IF IsUpper(P[k]) THEN 65 + ((P[k] - 65 + shift) % 26)
            ELSE IF IsLower(P[k]) THEN 97 + ((P[k] - 97 + shift) % 26)
            ELSE P[k]]

IsEncryptCall == pc = "done" /\ fn = "encrypt"

C3_NonLettersPreserved ==
    (IsEncryptCall /\ Returned(ret)) =>
        /\ Len(ret.val.v) = Len(args[1].v)
        /\ \A k \in 1..Len(args[1].v) :
              /\ IsLetter(ret.val.v[k]) <=> IsLetter(args[1].v[k])
              /\ ~IsLetter(args[1].v[k]) => ret.val.v[k] = args[1].v[k]

\* the key argument of a call of encrypt, decrypt or verify
KeyArg == args[Len(args)]

IsCipherCall == pc = "done" /\ fn \in {"encrypt", "decrypt", "verify"}

\* C4: every key that encrypt, decrypt or verify accepts is a non-empty string
\* of letters, so every shift derived from it lies in 0..25; the empty key is
\* rejected at each of these entry points.
C4_KeyInvariant ==
    /\ (IsCipherCall /\ Returned(ret)) =>
           /\ ValidKey(KeyArg)
           /\ \A j \in 0..(Len(KeyArg.v) - 1) :
                 encryptShift(toUpperCase(KeyArg.v), j) \in 0..25
    /\ (IsCipherCall /\ KeyArg = Str(<<>>)) => ~Returned(ret)

\* a state in which verify was given a plaintext, its ciphertext under
\* origin.args[2] and a second key
IsVerifyOfResult ==
    /\ pc = "done"
    /\ fn = "verify"
    /\ origin.fn = "encrypt"
    /\ args[1] = origin.args[1]
    /\ args[2] = origin.ret.val

\* C7 as stated: verify(P, encrypt(P, K), K2) is false for every K2 # K.
C7_OtherKeyRejected ==
    (IsVerifyOfResult /\ ValidKey(origin.args[2]) /\ ValidKey(args[3])
        /\ args[3] # origin.args[2])
        => ret = Return(Bool(FALSE))

\* some letter of P gets different shifts from the keys K and K2
ShiftsDiffer(P, K, K2) ==
    \E j \in 0..(Cardinality({k \in 1..Len(P) : IsLetter(P[k])}) - 1) :
        AlphabetIndex(K[(j % Len(K)) + 1]) # AlphabetIndex(K2[(j % Len(K2)) + 1])

\* C7, amended: for letter keys K and K2, verify(P, encrypt(P, K), K2) is false
\* exactly when some letter of P gets a different shift from K2 than from K,
\* and true otherwise (P without letters, K2 differing from K in case only or
\* by repetition, P shorter than the first differing key position).
C7_OtherKeyRejectedIffShiftsDiffer ==
    (IsVerifyOfResult /\ ValidKey(origin.args[2]) /\ ValidKey(args[3]))
        => ret = Return(Bool(~ShiftsDiffer(args[1].v, origin.args[2].v, args[3].v)))

\* a second key that differs only at its second letter, rejected on a text of
\* two letters
C7_Witness ==
    /\ IsVerifyOfResult
    /\ ValidKey(origin.args[2])
    /\ ValidKey(args[3])
    /\ Len(args[3].v) = 2
    /\ Len(origin.args[2].v) = 2
    /\ AlphabetIndex(args[3].v[1]) = AlphabetIndex(origin.args[2].v[1])
    /\ ShiftsDiffer(args[1].v, origin.args[2].v, args[3].v)
    /\ ret = Return(Bool(FALSE))

(***************************************************************************)
(* Properties of analyze.                                                  *)
(***************************************************************************)
IsAnalyzeResult == pc = "done" /\ fn = "analyze" /\ Returned(ret)

\* the deltas analyze records for the ciphertext C and the window n
RecordedDeltas(C, n) ==
    collectDistances(findSequences(stripToUpper(C.v), sequenceLengthOf(n), 0, <<>>),
                     1, <<>>)

\* the tally of the divisor d: the number of recorded deltas that d divides
Tally(d, deltas) == Cardinality({j \in 1..Len(deltas) : deltas[j] % d = 0})

\* the divisors with a tally
TalliedDivisors(deltas) ==
    {d \in UNION {1..deltas[j] : j \in 1..Len(deltas)} : Tally(d, deltas) > 0}

\* the position of the first recorded delta that d divides
FirstDivided(d, deltas) ==
    CHOOSE j \in 1..Len(deltas) :
        /\ deltas[j] % d = 0
        /\ \A h \in 1..(j - 1) : deltas[h] % d # 0

\* a comes before b: higher tally, or equal tally and smaller value
BeforeByValue(a, b, deltas) ==
    \/ Tally(a, deltas) > Tally(b, deltas)
    \/ (Tally(a, deltas) = Tally(b, deltas) /\ a < b)

\* a comes before b: higher tally, or equal tally and tallied earlier
BeforeByFirstTally(a, b, deltas) ==
    \/ Tally(a, deltas) > Tally(b, deltas)
    \/ /\ Tally(a, deltas) = Tally(b, deltas)
       /\ \/ FirstDivided(a, deltas) < FirstDivided(b, deltas)
          \/ (FirstDivided(a, deltas) = FirstDivided(b, deltas) /\ a < b)

\* kl holds min(5, number of divisors) distinct tallied divisors
IsSelection(kl, deltas) ==
    /\ Len(kl) = (IF Cardinality(TalliedDivisors(deltas)) < 5
                     THEN Cardinality(TalliedDivisors(deltas)) ELSE 5)
    /\ \A a \in 1..Len(kl) : kl[a] \in TalliedDivisors(deltas)

\* C5 as stated: keyLengths are the (at most 5) divisors with the highest tally,
\* by descending tally, equal tallies by ascending divisor value.
C5_KeyLengthsTiesAscending ==
    IsAnalyzeResult =>
        LET kl == ret.val.v[1].keyLengths
            deltas == RecordedDeltas(args[1], args[2])
        IN  /\ IsSelection(kl, deltas)
            /\ \A a, b \in 1..Len(kl) : a < b => BeforeByValue(kl[a], kl[b], deltas)
            /\ \A e \in TalliedDivisors(deltas) :
                  (\A a \in 1..Len(kl) : kl[a] # e) =>
                      \A a \in 1..Len(kl) : Tally(kl[a], deltas) >= Tally(e, deltas)

\* C5, amended: keyLengths are the first (at most 5) tallied divisors in the
\* order of descending tally, divisors of equal tally in the order in which
\* they entered the tally (by the first recorded delta they divide, ascending
\* among the divisors of that delta); the same order decides which 5 are kept.
C5_KeyLengthsTiesFirstTallied ==
    IsAnalyzeResult =>
        LET kl == ret.val.v[1].keyLengths
            deltas == RecordedDeltas(args[1], args[2])
        IN  /\ IsSelection(kl, deltas)
            /\ \A a, b \in 1..Len(kl) : a < b => BeforeByFirstTally(kl[a], kl[b], deltas)
            /\ \A e \in TalliedDivisors(deltas) :
                  (\A a \in 1..Len(kl) : kl[a] # e) =>
                      \A a \in 1..Len(kl) : BeforeByFirstTally(kl[a], e, deltas)

\* a result in which a larger divisor precedes a smaller one of equal tally
C5_Witness ==
    /\ IsAnalyzeResult
    /\ LET kl == ret.val.v[1].keyLengths
           deltas == RecordedDeltas(args[1], args[2])
       IN  \E a, b \in 1..Len(kl) :
              /\ a < b
              /\ kl[a] > kl[b]
              /\ Tally(kl[a], deltas) = Tally(kl[b], deltas)

(***************************************************************************)
(* Properties of bruteForce.                                               *)
(***************************************************************************)
IsBruteResult == pc = "done" /\ fn = "bruteForce" /\ Returned(ret)

\* the position in the tried list of the candidate that gave result a: the
\* m-th result with a key comes from the m-th accepted candidate equal to it
CandidateOf(results, tried, a) ==
    CHOOSE p \in 1..Len(tried) :
        /\ tried[p] = results[a].key
        /\ Cardinality({q \in 1..p : tried[q] = results[a].key})
             = Cardinality({b \in 1..a : results[b].key = results[a].key})

\* C6: the results of bruteForce are in non-increasing order of score, and
\* results of equal score are in the order of their keys in the tried list.
C6_SortedByScoreStable ==
    IsBruteResult =>
        LET results == ret.val.v
            tried == wordsToTry(args[2])
        IN  /\ \A a \in 1..(Len(results) - 1) : results[a].score >= results[a + 1].score
            /\ \A a \in 1..Len(results) :
                  \E p \in 1..Len(tried) : tried[p] = results[a].key
            /\ \A a, b \in 1..Len(results) :
                  (a < b /\ results[a].score = results[b].score)
                      => CandidateOf(results, tried, a) < CandidateOf(results, tried, b)

\* a result list in which the sort moved a later candidate to the front and
\* kept two different keys of equal score in their order
C6_Witness ==
    /\ IsBruteResult
    /\ LET results == ret.val.v
           tried == wordsToTry(args[2])
       IN  /\ \E a, b \in 1..Len(results) :
                 /\ a < b
                 /\ results[a].score > results[b].score
                 /\ CandidateOf(results, tried, a) > CandidateOf(results, tried, b)
           /\ \E a, b \in 1..Len(results) :
                 /\ a < b
                 /\ results[a].score = results[b].score
                 /\ results[a].key # results[b].key

(***************************************************************************)
(* Properties of the errors.                                               *)
(***************************************************************************)
\* the number of leading arguments of a function that must be strings
StringParams(f) ==
    IF f = "verify" THEN 3
    ELSE IF f \in {"encrypt", "decrypt"} THEN 2
    ELSE IF f \in {"bruteForce", "analyze"} THEN 1
    ELSE 0

\* some required string parameter of the call is not a string
HasNonStringParam ==
    /\ pc = "done"
    /\ \E p \in 1..StringParams(fn) : ~IsString(args[p])

Threw(cls) == ret.kind = "throw" /\ ret.err = cls /\ ret.val = Undefined

\* C8 as stated: a non-string passed for a required string parameter of
\* encrypt, decrypt, verify, bruteForce or analyze makes the call fail with a
\* TypeError.
C8_NonStringIsTypeError ==
    HasNonStringParam => Threw("TypeError")

\* C8, amended: such a call fails and returns no result; the error is a
\* TypeError for a non-string plaintext of encrypt, ciphertext of decrypt or
\* any parameter of verify, and a generic Error for a non-string key of
\* encrypt or decrypt (the text being a string) and for a non-string
\* ciphertext of bruteForce or analyze.
C8_NonStringErrorClass ==
    HasNonStringParam =>
        IF fn = "verify" \/ (fn \in {"encrypt", "decrypt"} /\ ~IsString(args[1]))
            THEN Threw("TypeError")
            ELSE Threw("Error")

\* bruteForce or analyze called with a ciphertext that is no string
C8_Witness ==
    /\ HasNonStringParam
    /\ fn \in {"bruteForce", "analyze"}
    /\ args[1] = Num(123, 1)
    /\ Threw("Error")

\* C9: encrypt raises a TypeError for a non-string plaintext (decrypt for a
\* non-string ciphertext) and, the text being a string, a generic Error that
\* is no TypeError for a key that is not a string or is empty; nothing is
\* returned in either case.
C9_EncryptErrorClasses ==
    (pc = "done" /\ fn \in {"encrypt", "decrypt"}) =>
        /\ ~IsString(args[1]) => Threw("TypeError")
        /\ (IsString(args[1]) /\ (~IsString(args[2]) \/ args[2] = Str(<<>>)))
               => Threw("Error")

\* encrypt called with a string plaintext and the empty key
C9_Witness ==
    /\ pc = "done"
    /\ fn = "encrypt"
    /\ IsString(args[1])
    /\ args[2] = Str(<<>>)
    /\ Threw("Error")

(***************************************************************************)
(* Properties of generateKey.                                              *)
(***************************************************************************)
\* C10: whenever generateKey(n) returns, the result is a string of exactly n
\* characters, each an uppercase letter A-Z; without an argument it has 8.
C10_KeyHasRequestedLength ==
    (pc = "done" /\ fn = "generateKey" /\ Returned(ret)) =>
        /\ IsString(ret.val)
        /\ \A j \in 1..Len(ret.val.v) : IsUpper(ret.val.v[j])
        /\ args[1] = Undefined => Len(ret.val.v) = 8
        /\ args[1] # Undefined =>
               /\ args[1].v[2] # 0
               /\ Len(ret.val.v) * args[1].v[2] = args[1].v[1]

(***************************************************************************)
(* Properties of generated keys.                                           *)
(***************************************************************************)
\* a state in which encrypt was given the key a generateKey call returned
IsEncryptOfGenerated ==
    /\ pc = "done"
    /\ fn = "encrypt"
    /\ origin.fn = "generateKey"

\* a round trip under the key the generateKey call of this run returned
IsGeneratedRoundTrip ==
    /\ IsRoundTrip
    /\ key # <<>>
    /\ args[2] = Str(key)

\* C11: every key a generateKey call returns is accepted by encrypt and by
\* decrypt, and decrypting what encrypt returned under it gives the plaintext
\* back.
C11_GeneratedKeyUsable ==
    /\ IsEncryptOfGenerated => Returned(ret)
    /\ IsGeneratedRoundTrip => ret = Return(origin.args[1])

\* the part of C11 that the code keeps: a generated key of at least one
\* character is accepted and round-trips
C11_NonEmptyGeneratedKeyUsable ==
    /\ (IsEncryptOfGenerated /\ Len(args[2].v) >= 1) => Returned(ret)
    /\ IsGeneratedRoundTrip => ret = Return(origin.args[1])

C11_RoundTripReached ==
    /\ IsGeneratedRoundTrip
    /\ Len(key) = DefaultKeyLength
    /\ origin.args[1] = Str(Lit(<<"H","E","L","L","O">>))
    /\ ret = Return(origin.args[1])
    /\ args[1] # origin.args[1]

\* a length argument that was passed and is no positive number: a value that
\* is no number, NaN, zero or a negative number
IsNotPositiveNumber(length) ==
    /\ length # Undefined
    /\ \/ length.t # "number"
       \/ length.v[2] = 0
       \/ length.v[1] <= 0

\* a generateKey call that raised and built no key
RaisedWithoutKey == pc = "done" /\ Threw("Error") /\ key = <<>>

\* C12: generateKey raises an error and produces no key whenever its length
\* argument is not a positive number.
C12_NotPositiveLengthRaises ==
    (fn = "generateKey" /\ IsNotPositiveNumber(args[1])) => RaisedWithoutKey

\* the part of C12 that the code keeps: zero, the negative numbers and the
\* values whose type is not number make generateKey raise
C12_ListedLengthsRaise ==
    (/\ fn = "generateKey"
     /\ IsNotPositiveNumber(args[1])
     /\ args[1] # Num(0, 0)) => RaisedWithoutKey

C12_StringLengthRaised ==
    /\ fn = "generateKey"
    /\ args[1] = Str(Lit(<<"1","0">>))
    /\ RaisedWithoutKey

(***************************************************************************)
(* Properties of verify.                                                   *)
(***************************************************************************)
IsVerifyResult == pc = "done" /\ fn = "verify" /\ Returned(ret)

\* a state in which verify was given the plaintext, the lower-cased result of
\* encrypt and the same key
IsVerifyOfLowered ==
    /\ pc = "done"
    /\ fn = "verify"
    /\ origin.fn = "encrypt"
    /\ args = <<origin.args[1], Str(toLowerCase(origin.ret.val.v)), origin.args[2]>>

\* verify returns true exactly when encrypt(P, K) and C are equal after both
\* are upper-cased, and verify(P, encrypt(P, K), K) is true
VerifyComparesUpperCased ==
    /\ IsVerifyResult =>
           ret.val = Bool(toUpperCase(encrypt(args[1], args[3]).val.v)
                              = toUpperCase(args[2].v))
    /\ (IsVerifyOfResult /\ args[3] = origin.args[2]) => ret = Return(Bool(TRUE))

\* C13 as stated: verify(P, C, K) is true exactly when encrypt(P, K) and C are
\* equal after upper-casing; verify(P, encrypt(P, K), K) is true and stays
\* true when the ciphertext is lower-cased.
C13_VerifyIgnoresCase ==
    /\ VerifyComparesUpperCased
    /\ IsVerifyOfLowered => ret = Return(Bool(TRUE))

\* C13, amended: verify(P, C, K) is true exactly when encrypt(P, K) and C are
\* equal after upper-casing; verify(P, encrypt(P, K), K) is true, and with the
\* ciphertext lower-cased it is true exactly when the ciphertext holds no
\* character whose lower-case form upper-cases to another character (none in
\* ASCII; the Kelvin sign, which lower-cases to k and so comes back as K).
C13_VerifyIgnoresAsciiCase ==
    /\ VerifyComparesUpperCased
    /\ IsVerifyOfLowered =>
           ret = Return(Bool(\A j \in 1..Len(origin.ret.val.v) :
                                 origin.ret.val.v[j] # KelvinSign))

\* 'HELLO' under 'KEY', as in the test: the lower-cased ciphertext differs from
\* the ciphertext and is accepted
C13_Witness ==
    /\ IsVerifyOfLowered
    /\ args[2] # origin.ret.val
    /\ ValidKey(args[3])
    /\ \E j \in 1..Len(args[1].v) : IsUpper(args[1].v[j])
    /\ ret = Return(Bool(TRUE))

(***************************************************************************)
(* Properties of bruteForce.                                               *)
(***************************************************************************)
\* a state in which bruteForce was given the result of encrypt and the list
\* holding only the key of that encrypt call
IsBruteOfResult ==
    /\ pc = "done"
    /\ fn = "bruteForce"
    /\ origin.fn = "encrypt"
    /\ args = <<origin.ret.val, Arr(<<origin.args[2]>>)>>

\* C14: for a non-empty plaintext P and a valid key K, bruteForce(encrypt(P, K),
\* [K]) returns a sequence whose first and only entry has the key K and the
\* plaintext P.
C14_OwnKeyRecovered ==
    (IsBruteOfResult /\ ValidKey(origin.args[2]) /\ Len(origin.args[1].v) >= 1) =>
        /\ Returned(ret)
        /\ Len(ret.val.v) = 1
        /\ ret.val.v[1].key = origin.args[2]
        /\ ret.val.v[1].plaintext = origin.args[1]

\* 'HELLOWORLD' under 'KEY', as in the test
C14_Witness ==
    /\ IsBruteOfResult
    /\ origin.args = <<Str(Lit(<<"H","E","L","L","O","W","O","R","L","D">>)),
                       Str(Lit(<<"K","E","Y">>))>>
    /\ args[1] = Str(Lit(<<"R","I","J","V","S","U","Y","V","J","N">>))
    /\ Len(ret.val.v) = 1
    /\ ret.val.v[1].key = Str(Lit(<<"K","E","Y">>))
    /\ ret.val.v[1].plaintext = origin.args[1]

\* the candidates a bruteForce call with the list W goes through
TriedWords(W) ==
    IF W = Undefined \/ Len(W.v) = 0 THEN defaultWords ELSE W.v

\* a candidate decrypt accepts as a key: a non-empty string
IsAcceptedWord(w) == IsString(w) /\ Len(w.v) >= 1

\* the number of positions of the sequence s that hold x
Occurrences(s, x) == Cardinality({p \in 1..Len(s) : s[p] = x})

\* C15: bruteForce returns exactly one result {key, plaintext, score} for each
\* tried candidate that decrypt accepts, with plaintext equal to
\* decrypt(ciphertext, key); a candidate on which decrypt raises is skipped, the
\* candidates after it are still processed, and the result is empty if every
\* candidate is skipped.
C15_OneResultPerAcceptedWord ==
    IsBruteResult =>
        LET tried == TriedWords(args[2])
            results == ret.val.v
            keys == [a \in 1..Len(results) |-> results[a].key]
        IN  /\ \A p \in 1..Len(tried) :
                   Occurrences(keys, tried[p])
                       = IF IsAcceptedWord(tried[p])
                             THEN Occurrences(tried, tried[p]) ELSE 0
            /\ \A a \in 1..Len(results) :
                   /\ DOMAIN results[a] = {"key", "plaintext", "score"}
                   /\ Occurrences(tried, results[a].key) >= 1
                   /\ Return(results[a].plaintext) = decrypt(args[1], results[a].key)
            /\ (\A p \in 1..Len(tried) : ~IsAcceptedWord(tried[p])) => results = <<>>

\* a list whose first candidate is skipped and whose later candidate gives the
\* only result
C15_Witness ==
    /\ IsBruteResult
    /\ args[2] # Undefined
    /\ Len(args[2].v) = 3
    /\ ~IsAcceptedWord(args[2].v[1])
    /\ IsAcceptedWord(args[2].v[2])
    /\ ~IsAcceptedWord(args[2].v[3])
    /\ Len(ret.val.v) = 1
    /\ ret.val.v[1].key = args[2].v[2]

\* every candidate of a non-empty list is skipped
C15_AllSkippedReached ==
    /\ IsBruteResult
    /\ args[2] # Undefined
    /\ Len(args[2].v) = 2
    /\ ret.val.v = <<>>

\* C16: when the candidate list is omitted or empty, bruteForce tries exactly
\* the built-in default words and returns one result per default word; when a
\* non-empty list is given, only the entries of that list are tried.
C16_DefaultsOnlyForEmptyList ==
    IsBruteResult =>
        LET results == ret.val.v
            keys == [a \in 1..Len(results) |-> results[a].key]
        IN  IF args[2] = Undefined \/ args[2] = Arr(<<>>)
                THEN /\ Len(results) = Len(defaultWords)
                     /\ \A p \in 1..Len(defaultWords) :
                            Occurrences(keys, defaultWords[p]) = 1
                ELSE /\ Len(results) <= Len(args[2].v)
                     /\ \A a \in 1..Len(results) :
                            Occurrences(args[2].v, keys[a]) >= 1

\* the empty list, on the ciphertext of the tests: the 21 default words
C16_Witness ==
    /\ IsBruteResult
    /\ args = <<Str(Lit(<<"R","I","J","V","S","U","Y","V","J","N">>)), Arr(<<>>)>>
    /\ Len(ret.val.v) = 21
    /\ \E a \in 1..21 : ret.val.v[a].key = Str(Lit(<<"V","A","U","L","T">>))

\* the omitted list
C16_OmittedReached ==
    /\ IsBruteResult
    /\ args[2] = Undefined
    /\ Len(ret.val.v) = 21

\* a given list none of whose entries is a default word
C16_GivenListReached ==
    /\ IsBruteResult
    /\ args[2] = Arr(<<Str(<<66>>), Str(<<65>>)>>)
    /\ Len(ret.val.v) = 2

(***************************************************************************)
(* Properties of the result of analyze.                                    *)
(***************************************************************************)
\* the letters of W hold the same window of n letters at two offsets
HasRepeatedWindow(W, n) ==
    \E p, q \in 0..(Len(W) - n) :
        p < q /\ SubSeq(W, p + 1, p + n) = SubSeq(W, q + 1, q + n)

\* an analyze call on a string of at least as many characters as the window
IsAnalyzeOfLongEnough ==
    /\ pc = "done"
    /\ fn = "analyze"
    /\ IsString(args[1])
    /\ Len(args[1].v) >= sequenceLengthOf(args[2])

C17_NoRepeatReached ==
    /\ IsAnalyzeOfLongEnough
    /\ args = <<Str(Lit(<<"A","B","C","D","E","F","G","H","I","J","K","L","M","N",
                          "O","P","Q","R","S","T">>)), Undefined>>
    /\ Returned(ret)
    /\ ret.val.v[1].keyLengths = <<>>
    /\ ret.val.v[1].likelyKeyLength = Null

\* a state in which analyze was given the result of encrypt and the window 3
IsAnalyzeOfResult ==
    /\ pc = "done"
    /\ fn = "analyze"
    /\ origin.fn = "encrypt"
    /\ args = <<origin.ret.val, Num(3, 1)>>

\* the encrypted text repeats 'THE' and the key is a valid key of two letters
IsPeriodicUnderTwoLetterKey ==
    /\ IsAnalyzeOfResult
    /\ origin.args[1].v \in PeriodicTexts
    /\ ValidKey(origin.args[2])
    /\ Len(origin.args[2].v) = 2

\* n is one of the key lengths the analyze call returned
InKeyLengths(n) ==
    /\ Returned(ret)
    /\ \E j \in 1..Len(ret.val.v[1].keyLengths) : ret.val.v[1].keyLengths[j] = n

\* C18 as stated: for the ciphertext of a plaintext repeating 'THE' under a
\* two-letter key, analyze(ciphertext, 3).keyLengths contains 2.
C18_TwoInKeyLengths ==
    IsPeriodicUnderTwoLetterKey => InKeyLengths(2)

\* C18, amended: for the ciphertext of a plaintext repeating 'THE' at least
\* three times, analyze(ciphertext, 3).keyLengths contains 2 exactly when the
\* two letters of the key differ as letters of the alphabet; under a key such
\* as 'AA' the ciphertext repeats every 3 letters and 2 is not reported.
C18_TwoInKeyLengthsIffLettersDiffer ==
    IsPeriodicUnderTwoLetterKey =>
        (InKeyLengths(2)
            <=> AlphabetIndex(origin.args[2].v[1]) # AlphabetIndex(origin.args[2].v[2]))

\* the plaintext of the test under 'AB'
C18_Witness ==
    /\ IsPeriodicUnderTwoLetterKey
    /\ Len(origin.args[1].v) = 23
    /\ origin.args[2] = Str(<<65, 66>>)
    /\ InKeyLengths(2)

IsAnalyzeOfString == pc = "done" /\ fn = "analyze" /\ IsString(args[1])

\* C19: analyze(ciphertext, n) raises a validation error whenever the
\* ciphertext has fewer than n characters; for a string of at least n
\* characters it returns a result, even when fewer than n of them are letters.
C19_ShortCiphertextRaises ==
    IsAnalyzeOfString =>
        IF Len(args[1].v) < sequenceLengthOf(args[2])
            THEN Threw("Error")
            ELSE Returned(ret)

\* three characters of which one is a letter, analyzed with the window 3
C19_Witness ==
    /\ IsAnalyzeOfString
    /\ args[2] = Num(3, 1)
    /\ Len(args[1].v) = 3
    /\ Len(stripToUpper(args[1].v)) = 1
    /\ Returned(ret)
    /\ ret.val.v[1].keyLengths = <<>>

\* two characters analyzed with the default window
C19_TooShortReached ==
    /\ IsAnalyzeOfString
    /\ args = <<Str(<<65, 66>>), Undefined>>
    /\ Threw("Error")

(***************************************************************************)
(* Further properties of encrypt.                                          *)
(***************************************************************************)
\* C21: for every call encrypt(P, K) that does not raise, the ciphertext has
\* exactly as many characters as P.
C21_LengthKept ==
    (IsEncryptCall /\ Returned(ret)) =>
        /\ IsString(ret.val)
        /\ Len(ret.val.v) = Len(args[1].v)

\* a text of letters and non-letters that encrypt changed
C21_Witness ==
    /\ IsEncryptCall
    /\ Returned(ret)
    /\ Len(args[1].v) = 13
    /\ \E k \in 1..Len(args[1].v) : ~IsLetter(args[1].v[k])
    /\ ret.val # args[1]
    /\ Len(ret.val.v) = 13

\* a state in which the plaintext of an encrypt call was encrypted again under
\* the lower-cased key
IsEncryptUnderLoweredKey ==
    /\ pc = "done"
    /\ fn = "encrypt"
    /\ origin.fn = "encrypt"
    /\ args = <<origin.args[1], Str(toLowerCase(origin.args[2].v))>>

\* C22: the case of the key does not matter: for every plaintext P and valid
\* key K, encrypt(P, K) equals encrypt(P, K lower-cased).
C22_KeyCaseIgnored ==
    (IsEncryptUnderLoweredKey /\ ValidKey(origin.args[2])) => ret = origin.ret

\* a key with an upper-case letter, on a text that the key changes
C22_Witness ==
    /\ IsEncryptUnderLoweredKey
    /\ ValidKey(origin.args[2])
    /\ args[2] # origin.args[2]
    /\ Returned(ret)
    /\ ret.val # args[1]
    /\ ret = origin.ret

(***************************************************************************)
(* The Vigenere cipher against the Caesar cipher.                          *)
(***************************************************************************)
\* a state in which the plaintext of a Vigenere call with a one-letter key was
\* given to the Caesar encrypt with the alphabet index of that letter
IsCaesarOfKeyLetter ==
    /\ pc = "done"
    /\ fn = "caesarEncrypt"
    /\ origin.fn = "encrypt"
    /\ Len(origin.args[2].v) = 1
    /\ args = <<origin.args[1], Num(AlphabetIndex(origin.args[2].v[1]), 1)>>

\* the key is made only of the letter A
IsKeyOfA(k) == ValidKey(k) /\ \A j \in 1..Len(k.v) : k.v[j] = 65

\* every letter of P is moved n places on in its alphabet, anything else kept
ShiftedBy(P, n) ==
    [k \in 1..Len(P) |->
        IF IsUpper(P[k]) THEN 65 + ((P[k] - 65 + n) % 26)
        ELSE IF IsLower(P[k]) THEN 97 + ((P[k] - 97 + n) % 26)
        ELSE P[k]]

\* C23: with a one-letter key L, the Vigenere encrypt(P, L) shifts every
\* letter of P by index(L); it returns P unchanged for a key made only of 'A',
\* and for L in 'B'..'Z' it equals the Caesar encrypt(P, index(L)).
C23_OneLetterKeyIsCaesar ==
    /\ (IsEncryptCall /\ IsString(args[1]) /\ ValidKey(args[2]) /\ Len(args[2].v) = 1)
           => ret = Return(Str(ShiftedBy(args[1].v, AlphabetIndex(args[2].v[1]))))
    /\ (IsEncryptCall /\ IsString(args[1]) /\ IsKeyOfA(args[2]))
           => ret = Return(args[1])
    /\ (IsCaesarOfKeyLetter /\ origin.args[2].v[1] \in 66..90)
           => ret = origin.ret

\* 'Hello World' under 'N' and under the Caesar shift 13
C23_Witness ==
    /\ IsCaesarOfKeyLetter
    /\ origin.args = <<Str(Lit(<<"H","e","l","l","o"," ","W","o","r","l","d">>)),
                       Str(<<78>>)>>
    /\ args[2] = Num(13, 1)
    /\ ret = origin.ret
    /\ ret = Return(Str(Lit(<<"U","r","y","y","b"," ","J","b","e","y","q">>)))

\* the key of a hundred 'A' leaves 'HELLOWORLD' unchanged
C23_KeyOfAReached ==
    /\ IsEncryptCall
    /\ Len(args[2].v) = 100
    /\ args[1] = Str(Lit(<<"H","E","L","L","O","W","O","R","L","D">>))
    /\ ret = Return(args[1])

(***************************************************************************)
(* The documented examples.                                                *)
(***************************************************************************)
HelloWorld == Str(Lit(<<"H","e","l","l","o"," ","W","o","r","l","d">>))

Secret == Str(Lit(<<"S","E","C","R","E","T">>))

DocumentedCiphertext == Str(Lit(<<"Z","i","j","j","b"," ","W","b","u","o","g">>))

IsDecryptCall == pc = "done" /\ fn = "decrypt"

C24_DocumentedDecryptReached ==
    /\ IsDecryptCall
    /\ origin = NoCall
    /\ args = <<DocumentedCiphertext, Secret>>
    /\ Returned(ret)

\* the documented call analyze('RIJVSUYVJNRIJVSUYVJN')
IsDocumentedAnalyze ==
    /\ pc = "done"
    /\ fn = "analyze"
    /\ args = <<Str(Lit(<<"R","I","J","V","S","U","Y","V","J","N",
                          "R","I","J","V","S","U","Y","V","J","N">>)), Undefined>>

IsCaesarEncryptResult == pc = "done" /\ fn = "caesarEncrypt" /\ Returned(ret)

\* a state in which the Caesar decrypt was given the result of the Caesar
\* encrypt and the same shift
IsCaesarRoundTrip ==
    /\ pc = "done"
    /\ fn = "caesarDecrypt"
    /\ origin.fn = "caesarEncrypt"
    /\ args = <<origin.ret.val, origin.args[2]>>

\* the texts a and b have letters of the same case at the same places and the
\* same characters everywhere else
SameCaseAndNonLetters(a, b) ==
    /\ Len(a) = Len(b)
    /\ \A k \in 1..Len(a) :
          /\ IsUpper(a[k]) <=> IsUpper(b[k])
          /\ IsLower(a[k]) <=> IsLower(b[k])
          /\ ~IsLetter(a[k]) => a[k] = b[k]

\* C26: for every string P and every integer shift s in 1..25, the Caesar
\* decrypt(encrypt(P, s), s) equals P, and encrypt keeps the case of every
\* letter and every non-alphabetic character.
C26_CaesarRoundTrip ==
    /\ (IsCaesarEncryptResult /\ IsString(args[1])
        /\ args[2] \in {Num(n, 1) : n \in 1..25})
           => SameCaseAndNonLetters(args[1].v, ret.val.v)
    /\ (pc = "done" /\ fn = "caesarEncrypt" /\ IsString(args[1])
        /\ args[2] \in {Num(n, 1) : n \in 1..25}) => Returned(ret)
    /\ IsCaesarRoundTrip => ret = Return(origin.args[1])

\* 'Hello World' under the shift 25: both cases, a space, letters that wrap
C26_Witness ==
    /\ IsCaesarRoundTrip
    /\ origin.args = <<Str(Lit(<<"H","e","l","l","o"," ","W","o","r","l","d">>)),
                       Num(25, 1)>>
    /\ args[1] = Str(Lit(<<"G","d","k","k","n"," ","V","n","q","k","c">>))
    /\ ret = Return(origin.args[1])

(***************************************************************************)
(* Properties of ROT13.                                                    *)
(***************************************************************************)
IsSymmetryCall == pc = "done" /\ fn = "isRot13Symmetric" /\ IsString(args[1])

\* a text that ROT13 leaves as it is: one without letters
IsFixedByRot13(s) == \A k \in 1..Len(s) : ~IsLetter(s[k])

\* C27: isRot13Symmetric(text) returns false for text that contains letters,
\* such as 'HELLO', and returns true only for texts that ROT13 leaves as they
\* are.
C27_SymmetricOnlyIfFixed ==
    /\ IsSymmetryCall => ret = Return(Bool(IsFixedByRot13(args[1].v)))
    /\ (IsSymmetryCall /\ args[1] = Str(Lit(<<"H","E","L","L","O">>)))
           => ret = Return(Bool(FALSE))

\* what the code does: every string is reported symmetric
C27_AlwaysTrue ==
    IsSymmetryCall => ret = Return(Bool(TRUE))

C27_HelloReached ==
    /\ IsSymmetryCall
    /\ args[1] = Str(Lit(<<"H","E","L","L","O">>))
    /\ ret = Return(Bool(TRUE))

(***************************************************************************)
(* Properties of the Braille converter.                                    *)
(***************************************************************************)
\* a state in which brailleToText was given the result of textToBraille
IsBrailleRoundTrip ==
    /\ pc = "done"
    /\ fn = "brailleToText"
    /\ origin.fn = "textToBraille"
    /\ args = <<origin.ret.val>>

\* the characters the converter has an entry for: the letters of either case,
\* the digits, the listed punctuation and the space
IsSupportedChar(c) ==
    \E e \in 1..Len(BRAILLE_DICT) : BRAILLE_DICT[e].char = toUpperCase(<<c>>)

IsSupportedText(s) == \A k \in 1..Len(s) : IsSupportedChar(s[k])

\* C28: for every text T made only of characters the converter supports,
\* brailleToText(textToBraille(T)) equals T upper-cased.
C28_BrailleRoundTrip ==
    (IsBrailleRoundTrip /\ IsSupportedText(origin.args[1].v))
        => ret = Return(Str(toUpperCase(origin.args[1].v)))

\* the part of C28 that the code keeps: texts without a digit and without a
\* slash, the characters whose entry has two cells
C28_SingleCellRoundTrip ==
    (/\ IsBrailleRoundTrip
     /\ IsSupportedText(origin.args[1].v)
     /\ \A k \in 1..Len(origin.args[1].v) :
            origin.args[1].v[k] \notin (48..57) \cup {47})
        => ret = Return(Str(toUpperCase(origin.args[1].v)))

\* a digit comes back as the number sign and a letter
C28_DigitReached ==
    /\ IsBrailleRoundTrip
    /\ origin.args[1] = Str(Lit(<<"1">>))
    /\ ret = Return(Str(<<35, 65>>))

\* the slash comes back as a full stop and a question mark
C28_SlashReached ==
    /\ IsBrailleRoundTrip
    /\ origin.args[1] = Str(<<47>>)
    /\ ret = Return(Str(<<46, 63>>))

C28_HelloWorldReached ==
    /\ IsBrailleRoundTrip
    /\ origin.args[1] = Str(Lit(<<"H","E","L","L","O"," ","W","O","R","L","D">>))
    /\ Len(args[1].v) = 11
    /\ ret = Return(origin.args[1])

WindowAt(W, n, p) == SubSeq(W, p + 1, p + n)

\* the offsets of W at which a window of n letters starts
Offsets(W, n) == 0..(Len(W) - n)

\* the offsets whose window occurred at an earlier offset
Recurrences(W, n) ==
    {p \in Offsets(W, n) :
        \E q \in Offsets(W, n) : q < p /\ WindowAt(W, n, q) = WindowAt(W, n, p)}

\* the offset of the occurrence before the recurrence at p
PreviousOccurrence(W, n, p) ==
    CHOOSE q \in Offsets(W, n) :
        /\ q < p
        /\ WindowAt(W, n, q) = WindowAt(W, n, p)
        /\ \A r \in Offsets(W, n) :
               (r < p /\ WindowAt(W, n, r) = WindowAt(W, n, p)) => r <= q

\* the offset of the first occurrence of the window at p
FirstOccurrence(W, n, p) ==
    CHOOSE q \in Offsets(W, n) :
        /\ WindowAt(W, n, q) = WindowAt(W, n, p)
        /\ \A r \in Offsets(W, n) : WindowAt(W, n, r) = WindowAt(W, n, p) => q <= r

\* the recurrence at p is recorded before the one at q: its window was seen
\* first, or it is an earlier recurrence of the same window
RecordedBefore(W, n, p, q) ==
    \/ FirstOccurrence(W, n, p) < FirstOccurrence(W, n, q)
    \/ (FirstOccurrence(W, n, p) = FirstOccurrence(W, n, q) /\ p < q)

\* the deltas between consecutive occurrences of every repeated window, window
\* by window in the order of first occurrence
ConsecutiveDeltas(W, n) ==
    LET reps == Recurrences(W, n)
        at(r) == CHOOSE p \in reps :
                     Cardinality({q \in reps : RecordedBefore(W, n, q, p)}) = r - 1
    IN  [r \in 1..Cardinality(reps) |-> at(r) - PreviousOccurrence(W, n, at(r))]

\* C30: repetitionCount is the number of deltas between consecutive
\* occurrences of every repeated window of the stripped upper-case letters,
\* distances holds the first min(10, repetitionCount) of them in the order they
\* were recorded, and every delta is a positive integer.
C30_DistancesAreConsecutiveDeltas ==
    IsAnalyzeResult =>
        LET out == ret.val.v[1]
            deltas == ConsecutiveDeltas(stripToUpper(args[1].v), sequenceLengthOf(args[2]))
        IN  /\ out.repetitionCount = Len(deltas)
            /\ Len(out.distances) = (IF Len(deltas) < 10 THEN Len(deltas) ELSE 10)
            /\ out.distances = SubSeq(deltas, 1, Len(out.distances))
            /\ \A j \in 1..Len(deltas) : deltas[j] \in Nat \ {0}

\* more than ten deltas, of which the first ten are returned
C30_Witness ==
    /\ IsAnalyzeResult
    /\ ret.val.v[1].repetitionCount > 10
    /\ Len(ret.val.v[1].distances) = 10
    /\ Cardinality(Recurrences(stripToUpper(args[1].v), sequenceLengthOf(args[2])))
           = ret.val.v[1].repetitionCount

====
